---- MODULE Spec2Model ----
(***************************************************************************)
(* One run of app.py (market index comparison): the per-index fetch loop,  *)
(* the three charts, the summary table and the optional raw-data export.   *)
(*                                                                         *)
(* Numbers.  A pandas float is modelled as a record [n, d]:                *)
(*   d > 0          the rational n/d in lowest terms                       *)
(*   d = 0, n = 1   +inf        d = 0, n = -1   -inf                       *)
(*   d = 0, n = 0   NaN (pandas' null)                                     *)
(* Arithmetic follows IEEE-754 for the special values (x/0 = inf, 0/0 =    *)
(* NaN, 0*inf = NaN, inf-inf = NaN) and is exact on finite values: binary  *)
(* rounding and the sign of zero are not modelled.                         *)
(***************************************************************************)
EXTENDS Integers, Sequences, FiniteSets, TLC

VARIABLES
    selected_indices,   \* app.py:25  the multiselect's value, in selection order
    show_raw,           \* app.py:164 the "Show raw data" checkbox
    pc,                 \* position of the script run
    i,                  \* position of the loop at app.py:63 in selected_indices
    cache,              \* app.py:29  st.cache_data entries of fetch_data, by ticker
    df,                 \* app.py:31  the frame the last executed fetch_data body downloaded
    data,               \* app.py:65  the loop's local: last value returned by fetch_data
    norm_data,          \* app.py:68  the loop's local: last normalized series
    price_data,         \* app.py:61  dict index -> series, in insertion order
    fig,                \* app.py:60  traces of the normalized chart
    fig_cum,            \* app.py:94  traces of the cumulative-return chart
    fig_vol,            \* app.py:117 traces of the rolling-volatility chart
    daily_returns,      \* app.py:145 the summary loop's local: last return series
    summary_data,       \* app.py:140 rows of the summary table
    combined_df,        \* app.py:165 columns of the normalized raw-data table
    rendered,           \* outputs displayed so far (st.plotly_chart / st.dataframe)
    messages            \* st.warning / st.error calls so far, in order

vars == <<selected_indices, show_raw, pc, i, cache, df, data, norm_data, price_data,
          fig, fig_cum, fig_vol, daily_returns, summary_data, combined_df, rendered,
          messages>>

-----------------------------------------------------------------------------
(* Bounds of the model *)

MaxSel == 2          \* at most this many indices are selected in Spec
MaxLen == 3          \* at most this many rows in a downloaded frame in SpecSeries
MaxPrice == 2        \* prices are drawn from 0..MaxPrice

(* Program constants *)

WINDOW == 20         \* rolling(window=20)

-----------------------------------------------------------------------------
(* Float arithmetic *)

Abs(x) == IF x < 0 THEN -x ELSE x

Sign(x) == IF x < 0 THEN -1 ELSE IF x > 0 THEN 1 ELSE 0

RECURSIVE GCD(_, _)
GCD(a, b) == IF b = 0 THEN a ELSE GCD(b, a % b)

\* the float with numerator n and denominator d >= 0, in canonical form
Norm(n, d) ==
    IF d = 0 THEN [n |-> Sign(n), d |-> 0]
    ELSE LET g == GCD(Abs(n), d) IN [n |-> n \div g, d |-> d \div g]

R(k) == [n |-> k, d |-> 1]

NaN == [n |-> 0, d |-> 0]

IsNaN(x) == x.d = 0 /\ x.n = 0

IsFinite(x) == x.d > 0

Neg(x) == [n |-> -(x.n), d |-> x.d]

Add(x, y) ==
    IF x.d = 0 /\ y.d = 0
    THEN (IF x.n = y.n THEN x ELSE NaN)
    ELSE Norm(x.n * y.d + y.n * x.d, x.d * y.d)

Sub(x, y) == Add(x, Neg(y))

Mul(x, y) == Norm(x.n * y.n, x.d * y.d)

Div(x, y) == Norm(x.n * y.d * (IF y.n < 0 THEN -1 ELSE 1), x.d * Abs(y.n))

-----------------------------------------------------------------------------
(* pandas Series operations used by app.py; a Series is a sequence of floats *)

\* a forward fill that fills nothing
ffill_none(s) == s

\* Series.ffill(): a null takes the most recent preceding non-null value
RECURSIVE ffill(_)
ffill(s) ==
    IF s = <<>> THEN <<>>
    ELSE LET n == Len(s)
             front == ffill(SubSeq(s, 1, n - 1))
         IN  IF IsNaN(s[n]) /\ n > 1 THEN Append(front, front[n - 1])
             ELSE Append(front, s[n])

\* Series.dropna(): the non-null entries, in order
dropna(s) == SelectSeq(s, LAMBDA x : ~IsNaN(x))

\* Series.fillna(0)
fillna0(s) == [k \in 1..Len(s) |-> IF IsNaN(s[k]) THEN R(0) ELSE s[k]]

\* Series.pct_change(): s / s.shift(1) - 1, null at the first position
pct_change(s) ==
    [k \in 1..Len(s) |-> IF k = 1 THEN NaN ELSE Sub(Div(s[k], s[k - 1]), R(1))]

\* Series + scalar, Series * scalar, Series / scalar
AddScalar(s, c) == [k \in 1..Len(s) |-> Add(s[k], c)]
MulScalar(s, c) == [k \in 1..Len(s) |-> Mul(s[k], c)]
DivScalar(s, c) == [k \in 1..Len(s) |-> Div(s[k], c)]

\* Series.cumprod(): nulls are skipped (treated as 1 and left null in the result)
RECURSIVE cumprod(_)
cumprod(s) ==
    IF s = <<>> THEN <<>>
    ELSE LET n == Len(s)
             rest == SelectSeq(SubSeq(s, 1, n - 1), LAMBDA x : ~IsNaN(x))
             front == cumprod(SubSeq(s, 1, n - 1))
             RECURSIVE prod(_)
             prod(t) == IF t = <<>> THEN R(1) ELSE Mul(prod(SubSeq(t, 1, Len(t) - 1)), t[Len(t)])
         IN  Append(front, IF IsNaN(s[n]) THEN NaN ELSE Mul(prod(rest), s[n]))

RECURSIVE SumSeq(_)
SumSeq(s) == IF s = <<>> THEN R(0) ELSE Add(SumSeq(SubSeq(s, 1, Len(s) - 1)), s[Len(s)])

\* Series.mean() of a series without nulls; NaN for the empty series
mean(s) == Div(SumSeq(s), R(Len(s)))

\* the square of Series.std() (ddof = 1) of a series without nulls: the sample
\* variance; NaN when the count does not exceed ddof.  The square root itself
\* is not rational.
var(s) ==
    LET m == mean(s)
        sq == [k \in 1..Len(s) |-> Mul(Sub(s[k], m), Sub(s[k], m))]
    IN  IF Len(s) <= 1 THEN NaN ELSE Div(SumSeq(sq), R(Len(s) - 1))

\* the square of Series.rolling(window=w).std(): null until w values are available
rolling_var(s, w) ==
    [k \in 1..Len(s) |-> IF k < w THEN NaN ELSE var(SubSeq(s, k - w + 1, k))]

-----------------------------------------------------------------------------
(* The application's data *)

INDEX_TICKERS ==
    [idx \in {"S&P 500", "NASDAQ", "Dow Jones", "Russell 2000", "NYSE Composite"} |->
        CASE idx = "S&P 500" -> "^GSPC"
          [] idx = "NASDAQ" -> "^IXIC"
          [] idx = "Dow Jones" -> "^DJI"
          [] idx = "Russell 2000" -> "^RUT"
          [] idx = "NYSE Composite" -> "^NYA"]

Indices == DOMAIN INDEX_TICKERS

Tickers == {INDEX_TICKERS[idx] : idx \in Indices}

\* What yf.download returns: the layout of the columns and the rows.  rows holds
\* the values of the column fetch_data selects ('Close' of the ticker under a
\* MultiIndex, else 'Adj Close', else 'Close'); for a layout without such a
\* column only the number of rows matters.
PriceLayouts == {"MultiClose", "AdjClose", "Close"}

OtherLayouts == {"MultiOther", "Other"}

IsMultiIndex(f) == f.cols \in {"MultiClose", "MultiOther"}

NoFrame == [cols |-> "Other", rows |-> <<>>]

\* pd.Series(dtype=float)
EmptySeries == <<>>

Warning(about) == [level |-> "warning", about |-> about]

Error(about) == [level |-> "error", about |-> about]

\* the body of fetch_data once yf.download returned f: the value returned and
\* the messages shown (replayed by st.cache_data on a later hit)
fetch_data(ticker, f) ==
    IF f.rows = <<>>
    THEN [series |-> EmptySeries, msgs |-> <<Warning(ticker)>>]
    ELSE IF IsMultiIndex(f)
    THEN (IF f.cols = "MultiClose"
          THEN [series |-> dropna(ffill(f.rows)), msgs |-> <<>>]
          ELSE [series |-> EmptySeries, msgs |-> <<Error(ticker)>>])
    ELSE (IF f.cols \in {"AdjClose", "Close"}
          THEN [series |-> dropna(ffill(f.rows)), msgs |-> <<>>]
          ELSE [series |-> EmptySeries, msgs |-> <<Error(ticker)>>])

\* a normalization by the last price instead of the first
normalize_by_last(series) == MulScalar(DivScalar(series, series[Len(series)]), R(100))

\* (series / series.iloc[0]) * 100; series.iloc[0] raises IndexError on an
\* empty series (see Raises)
normalize_series(series) == MulScalar(DivScalar(series, series[1]), R(100))

Raises(series) == series = <<>>

\* dict assignment d[key] = value on a dict kept as a sequence of items in
\* insertion order
DictSet(d, key, value) ==
    IF \E k \in 1..Len(d) : d[k].key = key
    THEN [k \in 1..Len(d) |-> IF d[k].key = key THEN [key |-> key, value |-> value] ELSE d[k]]
    ELSE Append(d, [key |-> key, value |-> value])

Trace(name, y) == [name |-> name, y |-> y]

\* app.py:96-100
cum_trace(index, series) ==
    LET returns == fillna0(pct_change(series))
        cum_returns == AddScalar(cumprod(AddScalar(returns, R(1))), R(-1))
    IN  Trace(index, MulScalar(cum_returns, R(100)))

\* app.py:119-123; y holds the squares of the plotted values
vol_trace(index, series) ==
    LET returns == fillna0(pct_change(series))
    IN  Trace(index, MulScalar(rolling_var(returns, WINDOW), R(10000)))

\* returns that keep the first position, filled with 0
summary_returns_padded(series) == fillna0(pct_change(series))

\* app.py:145
summary_returns(series) == dropna(pct_change(series))

\* app.py:142-155, before the f-string formatting of the numbers;
\* Volatility_sq is the square of the row's volatility
summary_row(index, series) ==
    LET start_price == series[1]
        end_price == series[Len(series)]
        rets == summary_returns(series)
    IN  [Index |-> index,
         Start_Price |-> start_price,
         End_Price |-> end_price,
         Total_Return |-> Mul(Sub(Div(end_price, start_price), R(1)), R(100)),
         Avg_Daily_Return |-> Mul(mean(rets), R(100)),
         Volatility_sq |-> Mul(var(rets), R(10000))]

-----------------------------------------------------------------------------
(* Inputs *)

RECURSIVE SeqsUpTo(_, _)
SeqsUpTo(S, n) ==
    IF n = 0 THEN {<<>>}
    ELSE LET shorter == SeqsUpTo(S, n - 1)
         IN  shorter \cup {Append(s, x) : s \in {t \in shorter : Len(t) = n - 1}, x \in S}

IsInjective(s) == \A a, b \in 1..Len(s) : s[a] = s[b] => a = b

\* a multiselect value: distinct options
Selections(n) == {s \in SeqsUpTo(Indices, n) : IsInjective(s)}

Prices == {R(k) : k \in 0..MaxPrice}

\* frames for the runs with at most one selected index: every raw series up to MaxLen
\* rows, and the two series the specification works through
SeriesFrames ==
    {[cols |-> c, rows |-> r] : c \in PriceLayouts,
        r \in SeqsUpTo(Prices \cup {NaN}, MaxLen)
              \cup {<<R(10), NaN, NaN, R(12)>>, <<R(100), R(110), R(99)>>}}
    \cup {[cols |-> c, rows |-> r] : c \in OtherLayouts, r \in {<<>>, <<NaN>>}}

\* frames for the runs with several selected indices: one of each kind of
\* fetch outcome
PipeFrames ==
    { [cols |-> "Close", rows |-> <<>>],
      [cols |-> "Other", rows |-> <<NaN>>],
      [cols |-> "MultiOther", rows |-> <<NaN>>],
      [cols |-> "Close", rows |-> <<NaN, NaN>>],
      [cols |-> "Close", rows |-> <<R(1)>>],
      [cols |-> "AdjClose", rows |-> <<R(0), R(1)>>],
      [cols |-> "AdjClose", rows |-> <<R(1), R(2)>>],
      [cols |-> "MultiClose", rows |-> <<NaN, R(2), NaN, R(1)>>] }

-----------------------------------------------------------------------------
(* The run *)

NotCached == [hit |-> FALSE, series |-> EmptySeries, msgs |-> <<>>]

InitRun(sel) ==
    /\ selected_indices = sel
    /\ show_raw \in BOOLEAN
    /\ pc = "start"
    /\ i = 1
    /\ cache = [t \in Tickers |-> NotCached]
    /\ df = NoFrame
    /\ data = EmptySeries
    /\ norm_data = EmptySeries
    /\ price_data = <<>>
    /\ fig = <<>>
    /\ fig_cum = <<>>
    /\ fig_vol = <<>>
    /\ daily_returns = <<>>
    /\ summary_data = <<>>
    /\ combined_df = <<>>
    /\ rendered = {}
    /\ messages = <<>>

Init == \E sel \in Selections(MaxSel) : InitRun(sel)

InitSeries == \E sel \in Selections(1) : InitRun(sel)

\* app.py:169-170
NoSelection ==
    /\ pc = "start"
    /\ selected_indices = <<>>
    /\ messages' = Append(messages, Warning("selection"))
    /\ pc' = "done"
    /\ UNCHANGED <<selected_indices, show_raw, i, cache, df, data, norm_data, price_data,
                   fig, fig_cum, fig_vol, daily_returns, summary_data, combined_df,
                   rendered>>

\* app.py:58-61
BeginRun ==
    /\ pc = "start"
    /\ selected_indices # <<>>
    /\ fig' = <<>>
    /\ price_data' = <<>>
    /\ i' = 1
    /\ pc' = "loop"
    /\ UNCHANGED <<selected_indices, show_raw, cache, df, data, norm_data, fig_cum,
                   fig_vol, daily_returns, summary_data, combined_df, rendered, messages>>

\* app.py:63-76: one iteration of the loop over selected_indices; the call of
\* fetch_data runs its body on a cache miss and replays the entry on a hit
LoopIter(Frames) ==
    /\ pc = "loop"
    /\ i <= Len(selected_indices)
    /\ LET index == selected_indices[i]
           ticker == INDEX_TICKERS[index]
       IN  \E f \in (IF cache[ticker].hit THEN {df} ELSE Frames) :
             LET got == IF cache[ticker].hit THEN cache[ticker]
                        ELSE [hit |-> TRUE] @@ fetch_data(ticker, f)
             IN  /\ df' = f
                 /\ cache' = [cache EXCEPT ![ticker] = got]
                 /\ messages' = messages \o got.msgs
                 /\ data' = got.series
                 /\ IF got.series = <<>>
                    THEN UNCHANGED <<norm_data, price_data, fig>>
                    ELSE /\ norm_data' = normalize_series(got.series)
                         /\ price_data' = DictSet(price_data, index, got.series)
                         /\ fig' = Append(fig, Trace(index, normalize_series(got.series)))
    /\ i' = i + 1
    /\ UNCHANGED <<selected_indices, show_raw, pc, fig_cum, fig_vol, daily_returns,
                   summary_data, combined_df, rendered>>

\* app.py:78-90
PlotNormalized ==
    /\ pc = "loop"
    /\ i > Len(selected_indices)
    /\ rendered' = rendered \cup {"fig"}
    /\ pc' = "cum"
    /\ UNCHANGED <<selected_indices, show_raw, i, cache, df, data, norm_data, price_data,
                   fig, fig_cum, fig_vol, daily_returns, summary_data, combined_df,
                   messages>>

\* a cumulative chart drawn for every selected index, fetched or not
CumulativeChart_AllSelected ==
    /\ pc = "cum"
    /\ fig_cum' = [k \in 1..Len(selected_indices) |->
                      cum_trace(selected_indices[k], cache[INDEX_TICKERS[selected_indices[k]]].series)]
    /\ rendered' = rendered \cup {"fig_cum"}
    /\ pc' = "vol"
    /\ UNCHANGED <<selected_indices, show_raw, i, cache, df, data, norm_data, price_data,
                   fig, fig_vol, daily_returns, summary_data, combined_df, messages>>

\* app.py:93-113
CumulativeChart ==
    /\ pc = "cum"
    /\ fig_cum' = [k \in 1..Len(price_data) |->
                      cum_trace(price_data[k].key, price_data[k].value)]
    /\ rendered' = rendered \cup {"fig_cum"}
    /\ pc' = "vol"
    /\ UNCHANGED <<selected_indices, show_raw, i, cache, df, data, norm_data, price_data,
                   fig, fig_vol, daily_returns, summary_data, combined_df, messages>>

\* app.py:116-136
VolatilityChart ==
    /\ pc = "vol"
    /\ fig_vol' = [k \in 1..Len(price_data) |->
                      vol_trace(price_data[k].key, price_data[k].value)]
    /\ rendered' = rendered \cup {"fig_vol"}
    /\ pc' = "summary"
    /\ UNCHANGED <<selected_indices, show_raw, i, cache, df, data, norm_data, price_data,
                   fig, fig_cum, daily_returns, summary_data, combined_df, messages>>

\* app.py:139-161
SummaryTable ==
    /\ pc = "summary"
    /\ summary_data' = [k \in 1..Len(price_data) |->
                           summary_row(price_data[k].key, price_data[k].value)]
    /\ daily_returns' = IF price_data = <<>> THEN daily_returns
                        ELSE summary_returns(price_data[Len(price_data)].value)
    /\ rendered' = rendered \cup {"summary_df"}
    /\ pc' = "raw"
    /\ UNCHANGED <<selected_indices, show_raw, i, cache, df, data, norm_data, price_data,
                   fig, fig_cum, fig_vol, combined_df, messages>>

\* the first position of selected_indices at which the comprehension of
\* app.py:165 raises, or 0: fetch_data hits the cache filled by the loop
FirstRaise ==
    LET bad == {k \in 1..Len(selected_indices) :
                   Raises(cache[INDEX_TICKERS[selected_indices[k]]].series)}
    IN  IF bad = {} THEN 0 ELSE CHOOSE k \in bad : \A m \in bad : k <= m

RECURSIVE Replay(_)
Replay(n) ==
    IF n = 0 THEN <<>>
    ELSE Replay(n - 1) \o cache[INDEX_TICKERS[selected_indices[n]]].msgs

\* app.py:164-168
RawData ==
    /\ pc = "raw"
    /\ IF ~show_raw
       THEN /\ pc' = "done"
            /\ UNCHANGED <<combined_df, rendered, messages>>
       ELSE IF FirstRaise # 0
       THEN /\ pc' = "crashed"
            /\ messages' = messages \o Replay(FirstRaise)
            /\ UNCHANGED <<combined_df, rendered>>
       ELSE /\ pc' = "done"
            /\ messages' = messages \o Replay(Len(selected_indices))
            /\ combined_df' = [k \in 1..Len(selected_indices) |->
                  Trace(selected_indices[k],
                        normalize_series(cache[INDEX_TICKERS[selected_indices[k]]].series))]
            /\ rendered' = rendered \cup {"combined_df"}
    /\ UNCHANGED <<selected_indices, show_raw, i, cache, df, data, norm_data, price_data,
                   fig, fig_cum, fig_vol, daily_returns, summary_data>>

Run(Frames) ==
    \/ NoSelection
    \/ BeginRun
    \/ LoopIter(Frames)
    \/ PlotNormalized
    \/ CumulativeChart
    \/ VolatilityChart
    \/ SummaryTable
    \/ RawData

Next == Run(PipeFrames)

NextSeries == Run(SeriesFrames)

\* runs with up to MaxSel selected indices, one fetch outcome of each kind
Spec == Init /\ [][Next]_vars

\* runs with at most one selected index and every raw series up to MaxLen rows
SpecSeries == InitSeries /\ [][NextSeries]_vars

-----------------------------------------------------------------------------
(* Vocabulary of the properties *)

Names(traces) == [k \in 1..Len(traces) |-> traces[k].name]

Keys(d) == [k \in 1..Len(d) |-> d[k].key]

RowNames(rows) == [k \in 1..Len(rows) |-> rows[k].Index]

Range(s) == {s[k] : k \in 1..Len(s)}

Min(S) == CHOOSE x \in S : \A y \in S : x <= y

Max(S) == CHOOSE x \in S : \A y \in S : x >= y

TickerAt(k) == INDEX_TICKERS[selected_indices[k]]

\* the loop over selected_indices has finished
LoopDone ==
    \/ pc \in {"cum", "vol", "summary", "raw", "done", "crashed"}
    \/ pc = "loop" /\ i > Len(selected_indices)

\* the selected indices whose cleaned series is non-empty
Usable ==
    {selected_indices[k] : k \in {m \in 1..Len(selected_indices) :
                                     cache[TickerAt(m)].hit /\ cache[TickerAt(m)].series # <<>>}}

\* s lists exactly the members of S, each once
ListsExactly(s, S) == IsInjective(s) /\ Range(s) = S

\* the iteration for the last fetched index has run; LastIndex is that index
Fetched == pc # "start" /\ i > 1

LastIndex == selected_indices[i - 1]

About(what) == {k \in 1..Len(messages) : messages[k].about = what}

Charts == {"fig", "fig_cum", "fig_vol", "summary_df"}

\* sum of f[k] over the finite set D of positions
RECURSIVE Total(_, _)
Total(f, D) ==
    IF D = {} THEN R(0) ELSE LET k == Max(D) IN Add(Total(f, D \ {k}), f[k])

\* product of f[k] over the positions 1..n
RECURSIVE Product(_, _)
Product(f, n) == IF n = 0 THEN R(1) ELSE Mul(Product(f, n - 1), f[n])

\* the period returns of the series S as the specification defines them:
\* 0 at the first position, S[k]/S[k-1] - 1 after it
PeriodReturn(S, k) == IF k = 1 THEN R(0) ELSE Sub(Div(S[k], S[k - 1]), R(1))

-----------------------------------------------------------------------------
(* Properties *)

\* C1: whatever the selection and the fetch outcomes, a run never aborts, and
\* a run that took the selected branch ends with every output displayed: the
\* three charts, the summary table and, with "Show raw data" ticked, the
\* normalized raw-data table holding every usable index.
C1_NoFailureIsFatal ==
    /\ pc # "crashed"
    /\ (pc = "done" /\ selected_indices # <<>>) =>
          /\ Charts \subseteq rendered
          /\ show_raw => /\ "combined_df" \in rendered
                         /\ Usable \subseteq Range(Names(combined_df))

\* C2: after the per-index loop the normalized chart traces exactly the
\* selected indices whose cleaned series is non-empty, each once, and so do
\* the cumulative-return chart, the volatility chart and the rows of the
\* summary table once each is built; a failed index appears in none of them.
C2_OutputsListExactlyUsable ==
    /\ LoopDone => /\ ListsExactly(Names(fig), Usable)
                   /\ ListsExactly(Keys(price_data), Usable)
    /\ "fig_cum" \in rendered => ListsExactly(Names(fig_cum), Usable)
    /\ "fig_vol" \in rendered => ListsExactly(Names(fig_vol), Usable)
    /\ "summary_df" \in rendered => ListsExactly(RowNames(summary_data), Usable)

\* C2 witness: two indices selected, one fetched empty with its warning, the
\* other valid: every chart has one trace and the summary table one row.
C2_Witness ==
    /\ pc = "done"
    /\ Len(selected_indices) = 2
    /\ cache[TickerAt(1)].series = <<>>
    /\ About(TickerAt(1)) # {}
    /\ Names(fig) = <<selected_indices[2]>>
    /\ Names(fig_cum) = <<selected_indices[2]>>
    /\ Names(fig_vol) = <<selected_indices[2]>>
    /\ Len(summary_data) = 1
    /\ summary_data[1].Index = selected_indices[2]

\* the cleaner's contract on a raw series: the leading nulls are dropped, no
\* null is left, and every position holds the most recent non-null raw price
\* at or before it
Cleaned(raw, out) ==
    LET nonnull == {k \in 1..Len(raw) : ~IsNaN(raw[k])}
        lead == IF nonnull = {} THEN Len(raw) ELSE Min(nonnull) - 1
    IN  /\ Len(out) = Len(raw) - lead
        /\ \A k \in 1..Len(out) :
              /\ ~IsNaN(out[k])
              /\ out[k] = raw[Max({m \in nonnull : m <= k + lead})]

\* C3: the series fetch_data returns for a frame with a price column holds no
\* null, keeps every non-null price in place, replaces every null that has a
\* preceding non-null price by the most recent one, and drops exactly the
\* leading nulls; [10, null, null, 12] becomes [10, 10, 10, 12].
C3_CleanerForwardFills ==
    (Fetched /\ df.cols \in PriceLayouts /\ df.rows # <<>>) =>
        /\ Cleaned(df.rows, data)
        /\ df.rows = <<R(10), NaN, NaN, R(12)>> => data = <<R(10), R(10), R(10), R(12)>>

\* C3 witness: the worked example, and a series with a leading null and an
\* inner null, have been cleaned.
C3_Witness ==
    /\ Fetched
    /\ df.cols \in PriceLayouts
    /\ \/ df.rows = <<R(10), NaN, NaN, R(12)>> /\ data = <<R(10), R(10), R(10), R(12)>>
       \/ df.rows = <<NaN, R(2), NaN>> /\ data = <<R(2), R(2)>>

\* C4: for a non-empty clean series with a non-zero first price the normalized
\* series has the same length, its k-th value is price[k] / price[1] * 100, its
\* first value is exactly 100, and the series stored in price_data is the
\* series fetch_data returned, unchanged.
C4_NormalizedToBase100 ==
    (Fetched /\ data # <<>> /\ data[1].n # 0) =>
        /\ Len(norm_data) = Len(data)
        /\ norm_data[1] = R(100)
        /\ \A k \in 1..Len(data) :
              /\ IsFinite(norm_data[k])
              /\ norm_data[k].n * data[1].n * data[k].d
                    = 100 * data[k].n * data[1].d * norm_data[k].d
        /\ data = cache[INDEX_TICKERS[LastIndex]].series
        /\ price_data[Len(price_data)] = [key |-> LastIndex, value |-> data]
        /\ fig[Len(fig)] = Trace(LastIndex, norm_data)

\* C4 witness: the series [2, 1] has been normalized to [100, 50].
C4_Witness ==
    /\ Fetched
    /\ data = <<R(2), R(1)>>
    /\ norm_data = <<R(100), R(50)>>

\* C5: every trace of the cumulative-return chart has one value per price, 0
\* at the first position, the compounded product of (1 + return) minus 1
\* wherever every return so far is defined, and, once a price of zero makes
\* a return -100%, the value -100% at that position and at every later one
\* whatever the later prices are.  Stated for the series with a non-zero
\* first price (the others are C10's).
C5_CumulativeReturnCascades ==
    "fig_cum" \in rendered =>
        \A t \in {u \in 1..Len(fig_cum) : price_data[u].value[1].n # 0} :
            LET S == price_data[t].value
                y == fig_cum[t].y
                ret == [k \in 1..Len(S) |-> PeriodReturn(S, k)]
                growth == [k \in 1..Len(S) |-> Add(R(1), ret[k])]
            IN  /\ Len(y) = Len(S)
                /\ y[1] = R(0)
                /\ \A k \in 1..Len(S) :
                      (\A m \in 1..(k - 1) : S[m].n # 0) =>
                          y[k] = Mul(Sub(Product(growth, k), R(1)), R(100))
                /\ \A z \in 2..Len(S) :
                      (S[z].n = 0 /\ S[z - 1].n # 0) =>
                          \A k \in z..Len(S) : y[k] = R(-100)

\* the period returns S[k+1]/S[k] - 1, k = 1..N-1, of the series S
Returns(S) == [k \in 1..(Len(S) - 1) |-> Sub(Div(S[k + 1], S[k]), R(1))]

\* the row of the summary table for the series S computed over the returns
\* at the positions D of Returns(S); the deviation of fewer than two returns
\* is undefined
RowOver(row, S, D) ==
    LET E == Returns(S)
        m == Div(Total(E, D), R(Cardinality(D)))
        dev == [k \in 1..Len(E) |-> Mul(Sub(E[k], m), Sub(E[k], m))]
    IN  /\ row.Start_Price = S[1]
        /\ row.End_Price = S[Len(S)]
        /\ row.Total_Return = Mul(Sub(Div(S[Len(S)], S[1]), R(1)), R(100))
        /\ row.Avg_Daily_Return = Mul(m, R(100))
        /\ row.Volatility_sq =
              IF Cardinality(D) < 2 THEN NaN
              ELSE Mul(Div(Total(dev, D), R(Cardinality(D) - 1)), R(10000))

\* C6 as stated: for every series of at least 2 prices the row has the first
\* and last price, the total return, and the mean and deviation of exactly
\* the N-1 returns S[k+1]/S[k] - 1.  Stated for the series with a non-zero
\* first price (the others are C10's).
C6_SummaryOverAllReturns ==
    "summary_df" \in rendered =>
        \A t \in 1..Len(summary_data) :
            LET S == price_data[t].value
            IN  (Len(S) >= 2 /\ S[1].n # 0) =>
                  /\ RowOver(summary_data[t], S, 1..(Len(S) - 1))
                  /\ t = Len(summary_data) => daily_returns = Returns(S)

\* C6 amended: the mean and deviation are taken over exactly the returns
\* S[k+1]/S[k] - 1 that are defined, in order: a position where the price and
\* the previous price are both zero gives no return; these are all N-1
\* returns when no two consecutive prices are zero.  The first position
\* contributes no return.
C6_SummaryOverDefinedReturns ==
    "summary_df" \in rendered =>
        \A t \in 1..Len(summary_data) :
            LET S == price_data[t].value
                D == {k \in 1..(Len(S) - 1) : ~(S[k].n = 0 /\ S[k + 1].n = 0)}
            IN  Len(S) >= 2 =>
                  /\ summary_data[t].Index = price_data[t].key
                  /\ RowOver(summary_data[t], S, D)
                  /\ t = Len(summary_data) =>
                        /\ Len(daily_returns) = Cardinality(D)
                        /\ \A r \in 1..Len(daily_returns) :
                              \E k \in D : /\ Cardinality({m \in D : m <= k}) = r
                                           /\ daily_returns[r] = Returns(S)[k]

\* C6 witness: the row of [100, 110, 99] is shown: start 100, end 99, total
\* return -1 %, average of the two returns +10 % and -10 % equal to 0.
C6_Witness ==
    /\ "summary_df" \in rendered
    /\ Len(summary_data) = 1
    /\ price_data[1].value = <<R(100), R(110), R(99)>>
    /\ summary_data[1].Start_Price = R(100)
    /\ summary_data[1].End_Price = R(99)
    /\ summary_data[1].Total_Return = R(-1)
    /\ summary_data[1].Avg_Daily_Return = R(0)
    /\ daily_returns = <<Norm(1, 10), Norm(-1, 10)>>

\* C7: when the frame downloaded for an index is empty, or its prices are all
\* null, the index is left out of price_data and of the chart and a message
\* naming its ticker has been shown.
C7_EmptySeriesIsWarned ==
    (Fetched /\ (df.rows = <<>>
                 \/ (df.cols \in PriceLayouts /\ \A k \in 1..Len(df.rows) : IsNaN(df.rows[k])))) =>
        /\ LastIndex \notin Range(Keys(price_data))
        /\ LastIndex \notin Range(Names(fig))
        /\ About(INDEX_TICKERS[LastIndex]) # {}

\* C8: a run that ends normally with nothing selected, or with no selected
\* index usable, has shown exactly one message and displayed no chart and no
\* table.
C8_NothingUsableShowsOnePrompt ==
    (pc = "done" /\ Usable = {}) =>
        /\ rendered \cap Charts = {}
        /\ Len(messages) = 1

\* C9: an index whose clean series has a single price gets no row in the
\* summary table, and a message about it has been shown.  Stated for the
\* series with a non-zero first price (the others are C10's).
C9_SinglePriceHasNoRow ==
    "summary_df" \in rendered =>
        \A t \in 1..Len(price_data) :
            (Len(price_data[t].value) < 2 /\ price_data[t].value[1].n # 0) =>
                /\ price_data[t].key \notin Range(RowNames(summary_data))
                /\ About(INDEX_TICKERS[price_data[t].key]) # {}

\* C10: an index whose clean series starts with the price 0 is reported with
\* a message and is left out: no trace of it is charted and no series of it
\* is stored in price_data.
C10_ZeroBasePriceIsExcluded ==
    (Fetched /\ data # <<>> /\ data[1].n = 0) =>
        /\ LastIndex \notin Range(Names(fig))
        /\ LastIndex \notin Range(Keys(price_data))
        /\ About(INDEX_TICKERS[LastIndex]) # {}

====
